---- MODULE Spec2Model ----
(***************************************************************************)
(* Valerix: the order-placement saga.                                      *)
(*                                                                         *)
(*   order-service      POST /orders             (Order Saga Coordinator)  *)
(*   inventory-service  POST /inventory/deduct   (Inventory Deduction      *)
(*                                                Handler, Stock Ledger,   *)
(*                                                Idempotency Ledger)      *)
(*                                                                         *)
(* The awaits at which one request can observe another are steps of their  *)
(* own, so that requests interleave where the event loop and the database  *)
(* let them.                                                               *)
(* The store is a relational database at its default isolation level       *)
(* (read committed): a plain read sees the last committed value, an        *)
(* update takes the row lock until the transaction ends, an insert fails   *)
(* on a key that is committed, and a transaction's writes become visible   *)
(* together at its commit.  The last statement of the transaction and its  *)
(* commit are one step: nothing can be observed between them.              *)
(***************************************************************************)
EXTENDS Integers, Sequences, FiniteSets, TLC

\* ------------------------------------------------------------------ bounds
\* POST /orders requests issued during a run.
MaxReq == 2
\* POST /inventory/deduct requests sent by a client directly (retries).
MaxDirect == 1

\* ------------------------------------------------------- program constants
FluxStock == 20
GremlinQuantity == 13
\* A delay shorter than the coordinator's deadline.
ShortDelayMs == 1000
GremlinDelayMs == 5000
\* axios's default: no timeout.
NoTimeout == 0
TimeoutMs == 2000

\* A falsy request field (absent, undefined, 0): `!x` is true of it.
Missing == 0

\* The id of the product row 'Flux Capacitor'.
FluxCapacitor == 1
\* An id that no product row has.
UnknownProduct == 2

\* The product rows of the model: one of the four that seedProducts writes.
Products == {FluxCapacitor}
SeedStock == [p \in Products |-> FluxStock]

\* Order ids are generated 1, 2, ... by order.create.
OrderIds == 1..MaxReq

\* Request bodies the clients send: every quantity on the product, one
\* request for a product that does not exist, one for each missing field.
QuantityInputs == {-1, 1, GremlinQuantity}
OrderInputs ==
    {[productId |-> FluxCapacitor, quantity |-> q] : q \in QuantityInputs}
    \cup {[productId |-> UnknownProduct, quantity |-> 1],
          [productId |-> Missing, quantity |-> 1],
          [productId |-> FluxCapacitor, quantity |-> Missing]}
DeductInputs ==
    {[productId |-> b.productId, quantity |-> b.quantity, orderId |-> x] :
        b \in OrderInputs, x \in OrderIds}
    \cup {[productId |-> FluxCapacitor, quantity |-> 1, orderId |-> Missing]}

\* Response messages, as the code spells them.
MsgMissingOrder == "Missing productId or quantity"
MsgInventoryIssue == "Order failed due to inventory issue"
MsgTimedOut == "Order processing timed out waiting for inventory"
MsgMissingDeduct == "Missing productId, quantity, or orderId"
MsgAlreadyDeducted == "Stock already deducted (Idempotent)"
MsgDeducted == "Stock deducted"
MsgInsufficient == "Insufficient stock or product not found"
MsgUniqueConstraint == "Unique constraint failed on the fields: orderId"
MsgStorage == "Can't reach database server"

VARIABLES
    stock,      \* Product.stock, committed value per product row
    ledger,     \* IdempotencyLog: number of committed rows per orderId
    orders,     \* Order table: sequence of rows, the index is the id
    saga,       \* POST /orders requests, one record per request slot
    calls,      \* POST /inventory/deduct requests, in order of arrival
    decs,       \* history: committed stock writes per operation identifier
    direct      \* number of direct deduct requests sent so far

vars == <<stock, ledger, orders, saga, calls, decs, direct>>

\* ------------------------------------------------------------------ helpers
Falsy(x) == x = Missing

\* The result of tx.product.findUnique: null, or the row's stock.
NoProduct == [found |-> FALSE, stock |-> 0]

\* A POST /orders request before it is sent.
IdleSaga ==
    [pc |-> "idle", productId |-> Missing, quantity |-> Missing, orderId |-> 0,
     call |-> 0, errCode |-> "", http |-> 0, error |-> "", respOrderId |-> 0,
     respStatus |-> ""]

NewCall(p, q, x, from) ==
    [productId |-> p, quantity |-> q, orderId |-> x, from |-> from,
     pc |-> "arrived", product |-> NoProduct, newStock |-> 0,
     http |-> 0, message |-> "", cause |-> "", committed |-> FALSE]

CallIds == 1..Len(calls)

Init ==
    /\ stock = SeedStock
    /\ ledger = [x \in OrderIds |-> 0]
    /\ orders = <<>>
    /\ saga = [r \in 1..MaxReq |-> IdleSaga]
    /\ calls = <<>>
    /\ decs = [x \in OrderIds |-> 0]
    /\ direct = 0

\* ---------------------------------------------- inventory-service: deduct
\* Request validation, lines 66-71: a request with a falsy field is answered
\* 400 at once, any other goes on to the idempotency lookup.
Arrive(p, q, x, from) ==
    IF Falsy(p) \/ Falsy(q) \/ Falsy(x)
    THEN [NewCall(p, q, x, from) EXCEPT
              !.pc = "done", !.http = 400, !.message = MsgMissingDeduct,
              !.cause = "InvalidRequest"]
    ELSE [NewCall(p, q, x, from) EXCEPT !.pc = "lookup"]

\* idempotencyLog.findUnique({ where: { orderId } }) found a row.
ExistingLog(x) == ledger[x] > 0

\* The replay made to wait for the Gremlin like a first delivery.
LookupThenDelay(c) ==
    /\ calls[c].pc = "lookup"
    /\ calls' = [calls EXCEPT ![c] =
                    IF ExistingLog(calls[c].orderId)
                    THEN IF calls[c].quantity = GremlinQuantity
                         THEN [@ EXCEPT !.pc = "delay",
                                        !.cause = "AlreadyDeducted"]
                         ELSE [@ EXCEPT !.pc = "done", !.http = 200,
                                        !.message = MsgAlreadyDeducted,
                                        !.cause = "AlreadyDeducted"]
                    ELSE [@ EXCEPT !.pc = "txRead"]]
    /\ UNCHANGED <<stock, ledger, orders, saga, decs, direct>>
\* 1. Check Idempotency.
Lookup(c) ==
    /\ calls[c].pc = "lookup"
    /\ calls' = [calls EXCEPT ![c] =
                    IF ExistingLog(calls[c].orderId)
                    THEN [@ EXCEPT !.pc = "done", !.http = 200,
                                   !.message = MsgAlreadyDeducted,
                                   !.cause = "AlreadyDeducted"]
                    ELSE [@ EXCEPT !.pc = "txRead"]]
    /\ UNCHANGED <<stock, ledger, orders, saga, decs, direct>>

\* tx.product.findUnique({ where: { id: productId } })
FindProduct(p) ==
    IF p \in Products THEN [found |-> TRUE, stock |-> stock[p]] ELSE NoProduct

\* The check without its stock comparison.
NoStockCheck(product, quantity) == ~product.found
\* !product || product.stock < quantity
Rejects(product, quantity) == ~product.found \/ product.stock < quantity

\* Which of the two conditions of line 91 made the transaction throw.
RejectCause(product) ==
    IF ~product.found THEN "ProductNotFound" ELSE "InsufficientStock"

\* The two writes without a transaction around them: a failure after the
\* update leaves the update in place.
RollbackKeepsWrite(c) ==
    IF calls[c].pc = "txCreate"
    THEN [stock EXCEPT ![calls[c].productId] = calls[c].newStock]
    ELSE stock
\* The committed stock after the callback of prisma.$transaction has thrown:
\* the transaction is rolled back and none of its writes is kept.
Rollback(c) == stock

\* The request once its transaction has ended: the transaction's locals (the
\* product it read, the value it wrote) are gone.
Settled(c) == [calls[c] EXCEPT !.product = NoProduct, !.newStock = 0]

\* The call holds the lock of its product row: it has updated the row in a
\* transaction that is still open.
HoldsRow(c) == calls[c].pc = "txCreate"

\* The idempotency row written ahead of the stock check.
TxReadLogsFirst(c) ==
    /\ calls[c].pc = "txRead"
    /\ LET product == FindProduct(calls[c].productId) IN
       /\ calls' = [calls EXCEPT ![c] =
              IF Rejects(product, calls[c].quantity)
              THEN [@ EXCEPT !.pc = "done", !.product = product, !.http = 400,
                             !.message = MsgInsufficient,
                             !.cause = RejectCause(product)]
              ELSE [@ EXCEPT !.pc = "txUpdate", !.product = product]]
       /\ ledger' = [ledger EXCEPT ![calls[c].orderId] = @ + 1]
    /\ stock' = Rollback(c)
    /\ UNCHANGED <<orders, saga, decs, direct>>
\* 2. Transaction, first statement: read the product and check the stock;
\* the throw rolls the transaction back and the catch block answers 400.
TxRead(c) ==
    /\ calls[c].pc = "txRead"
    /\ LET product == FindProduct(calls[c].productId) IN
       calls' = [calls EXCEPT ![c] =
           IF Rejects(product, calls[c].quantity)
           THEN [@ EXCEPT !.pc = "done", !.http = 400,
                          !.message = MsgInsufficient,
                          !.cause = RejectCause(product)]
           ELSE [@ EXCEPT !.pc = "txUpdate", !.product = product]]
    /\ stock' = Rollback(c)
    /\ UNCHANGED <<ledger, orders, saga, decs, direct>>

\* data: { stock: product.stock - quantity }
Decremented(product, quantity) == product.stock - quantity

\* tx.product.update: waits for the row lock, then writes the value computed
\* from the row as this transaction read it.
TxUpdate(c) ==
    /\ calls[c].pc = "txUpdate"
    /\ \A d \in CallIds \ {c} :
          ~(HoldsRow(d) /\ calls[d].productId = calls[c].productId)
    /\ calls' = [calls EXCEPT ![c] =
           [@ EXCEPT !.pc = "txCreate",
                     !.newStock = Decremented(calls[c].product, calls[c].quantity)]]
    /\ UNCHANGED <<stock, ledger, orders, saga, decs, direct>>

\* IdempotencyLog.orderId without its unique key.
NoUniqueIndex(x) == FALSE
\* IdempotencyLog.orderId is a unique key (it is what findUnique selects
\* by): creating a second row for a committed orderId fails.
UniqueViolation(x) == ledger[x] > 0

\* if (quantity === 13)
GremlinTriggered(quantity) == quantity = GremlinQuantity

\* tx.idempotencyLog.create and the commit that follows it.  On a key that
\* is already there the insert fails, the transaction is rolled back and
\* the catch block answers 400.  Otherwise the transaction commits and both
\* writes become visible together; without the Gremlin the handler answers
\* in the same turn of the event loop, with it the answer waits for the
\* timer.
TxCreate(c) ==
    /\ calls[c].pc = "txCreate"
    /\ IF UniqueViolation(calls[c].orderId)
       THEN /\ stock' = Rollback(c)
            /\ calls' = [calls EXCEPT ![c] =
                   [Settled(c) EXCEPT !.pc = "done", !.http = 400,
                             !.message = MsgUniqueConstraint,
                             !.cause = "UniqueViolation"]]
            /\ UNCHANGED <<ledger, decs>>
       ELSE /\ stock' = [stock EXCEPT ![calls[c].productId] = calls[c].newStock]
            /\ ledger' = [ledger EXCEPT ![calls[c].orderId] = @ + 1]
            /\ decs' = [decs EXCEPT ![calls[c].orderId] = @ + 1]
            /\ calls' = [calls EXCEPT ![c] =
                   IF GremlinTriggered(calls[c].quantity)
                   THEN [Settled(c) EXCEPT !.pc = "delay", !.committed = TRUE]
                   ELSE [Settled(c) EXCEPT !.pc = "done", !.committed = TRUE,
                                  !.http = 200, !.message = MsgDeducted]]
    /\ UNCHANGED <<orders, saga, direct>>

\* The 5000 ms of the Gremlin end after the 2000 ms of the caller's deadline.
DelayOutlastsDeadline == TimeoutMs > 0 /\ GremlinDelayMs > TimeoutMs

\* The request came from a coordinator that is still waiting for the answer.
CallerWaiting(c) ==
    calls[c].from # 0 /\ saga[calls[c].from].pc = "waiting"

\* 3. Gremlin Latency: the timer fires and the handler answers.  A caller
\* with a shorter deadline has given up by then.
GremlinDelay(c) ==
    /\ calls[c].pc = "delay"
    /\ ~(DelayOutlastsDeadline /\ CallerWaiting(c))
    /\ calls' = [calls EXCEPT ![c] =
           [@ EXCEPT !.pc = "done", !.http = 200, !.message = MsgDeducted]]
    /\ UNCHANGED <<stock, ledger, orders, saga, decs, direct>>

\* The store fails inside the transaction (connection lost, statement
\* timeout): the transaction is rolled back and the catch block answers 400
\* with the storage error's message.
TxInterrupt(c) ==
    /\ calls[c].pc \in {"txRead", "txUpdate", "txCreate"}
    /\ stock' = Rollback(c)
    /\ calls' = [calls EXCEPT ![c] =
           [Settled(c) EXCEPT !.pc = "done", !.http = 400,
                     !.message = MsgStorage,
                     !.cause = IF calls[c].pc = "txCreate"
                               THEN "InterruptedAfterUpdate"
                               ELSE "Interrupted"]]
    /\ UNCHANGED <<ledger, orders, saga, decs, direct>>

\* A client posts to /inventory/deduct itself, for example to retry an order
\* that timed out, with the identifier of an order it has seen (GET /orders
\* lists them) or with none.
DirectDeduct(p, q, x) ==
    /\ direct < MaxDirect
    /\ x <= Len(orders)
    /\ direct' = direct + 1
    /\ calls' = Append(calls, Arrive(p, q, x, 0))
    /\ UNCHANGED <<stock, ledger, orders, saga, decs>>

\* The validation without its test of quantity.
PlaceOrderNoQuantityCheck(r, p, q) ==
    /\ saga[r].pc = "idle"
    /\ \A s \in 1..(r - 1) : saga[s].pc # "idle"
    /\ IF Falsy(p)
       THEN /\ saga' = [saga EXCEPT ![r] =
                   [@ EXCEPT !.pc = "done", !.productId = p, !.quantity = q,
                             !.http = 400, !.error = MsgMissingOrder]]
            /\ orders' = orders
       ELSE /\ orders' = Append(orders,
                   [productId |-> p, quantity |-> q, status |-> "PENDING"])
            /\ saga' = [saga EXCEPT ![r] =
                   [@ EXCEPT !.pc = "created", !.productId = p, !.quantity = q,
                             !.orderId = Len(orders) + 1]]
    /\ UNCHANGED <<stock, ledger, calls, decs, direct>>
\* -------------------------------------------------- order-service: /orders
\* Lines 59-73: validation, then order.create with status PENDING.  Request
\* slots are used in order.
PlaceOrder(r, p, q) ==
    /\ saga[r].pc = "idle"
    /\ \A s \in 1..(r - 1) : saga[s].pc # "idle"
    /\ IF Falsy(p) \/ Falsy(q)
       THEN /\ saga' = [saga EXCEPT ![r] =
                   [@ EXCEPT !.pc = "done", !.productId = p, !.quantity = q,
                             !.http = 400, !.error = MsgMissingOrder]]
            /\ orders' = orders
       ELSE /\ orders' = Append(orders,
                   [productId |-> p, quantity |-> q, status |-> "PENDING"])
            /\ saga' = [saga EXCEPT ![r] =
                   [@ EXCEPT !.pc = "created", !.productId = p, !.quantity = q,
                             !.orderId = Len(orders) + 1]]
    /\ UNCHANGED <<stock, ledger, calls, decs, direct>>

\* The call sent with the request's number instead of order.id.
CallDeductOtherId(r) ==
    /\ saga[r].pc = "created"
    /\ calls' = Append(calls,
           Arrive(saga[r].productId, saga[r].quantity, r, r))
    /\ saga' = [saga EXCEPT ![r] =
           [@ EXCEPT !.pc = "waiting", !.call = Len(calls) + 1]]
    /\ UNCHANGED <<stock, ledger, orders, decs, direct>>
\* Lines 79-85: axios.post to /inventory/deduct with orderId: order.id.
CallDeduct(r) ==
    /\ saga[r].pc = "created"
    /\ calls' = Append(calls,
           Arrive(saga[r].productId, saga[r].quantity, saga[r].orderId, r))
    /\ saga' = [saga EXCEPT ![r] =
           [@ EXCEPT !.pc = "waiting", !.call = Len(calls) + 1]]
    /\ UNCHANGED <<stock, ledger, orders, decs, direct>>

\* The handler's answer has been sent and is there for the coordinator.
Answered(r) == saga[r].pc = "waiting" /\ calls[saga[r].call].pc = "done"

\* Lines 87-93: the answer is a 200; order.update to CONFIRMED, answer 201.
Confirm(r) ==
    /\ Answered(r)
    /\ calls[saga[r].call].http = 200
    /\ orders' = [orders EXCEPT ![saga[r].orderId].status = "CONFIRMED"]
    /\ saga' = [saga EXCEPT ![r] =
           [@ EXCEPT !.pc = "done", !.http = 201, !.respOrderId = saga[r].orderId,
                     !.respStatus = "CONFIRMED"]]
    /\ UNCHANGED <<stock, ledger, calls, decs, direct>>

\* The catch block without its test of error.code.
AlwaysInventoryIssue(code) == MsgInventoryIssue
\* Lines 101-104: the message of the failure.
ErrorMessage(code) ==
    IF code = "ECONNABORTED" THEN MsgTimedOut ELSE MsgInventoryIssue

\* The 503 payload without its orderId.
CatchNoOrderId(r, code) ==
    /\ orders' = [orders EXCEPT ![saga[r].orderId].status = "FAILED"]
    /\ saga' = [saga EXCEPT ![r] =
           [@ EXCEPT !.pc = "done", !.errCode = code, !.http = 503,
                     !.error = ErrorMessage(code), !.respStatus = "FAILED"]]
    /\ UNCHANGED <<stock, ledger, calls, decs, direct>>
\* Lines 98-113, the catch block entered with error.code = code:
\* order.update to FAILED, answer 503.
Catch(r, code) ==
    /\ orders' = [orders EXCEPT ![saga[r].orderId].status = "FAILED"]
    /\ saga' = [saga EXCEPT ![r] =
           [@ EXCEPT !.pc = "done", !.errCode = code, !.http = 503,
                     !.error = ErrorMessage(code),
                     !.respOrderId = saga[r].orderId, !.respStatus = "FAILED"]]
    /\ UNCHANGED <<stock, ledger, calls, decs, direct>>

\* The answer is a 400: axios rejects with ERR_BAD_REQUEST and control goes
\* to the catch block.
Rejected(r) ==
    /\ Answered(r)
    /\ calls[saga[r].call].http # 200
    /\ Catch(r, "ERR_BAD_REQUEST")

\* timeout: 2000 -- no answer within the deadline: axios rejects with
\* ECONNABORTED and control goes to the catch block.  The handler is not
\* cancelled.  A timeout of 0 is axios's "no timeout".
Timeout(r) ==
    /\ saga[r].pc = "waiting"
    /\ TimeoutMs > 0
    /\ Catch(r, "ECONNABORTED")

\* The catch block after order.update has rejected.
Fail(r) ==
    /\ saga[r].pc = "failing"
    /\ Catch(r, saga[r].errCode)

\* Lines 89-92 fail: order.update rejects inside the try block, with the
\* write either not done or done and its acknowledgement lost; control goes
\* to the catch block.
ConfirmFault(r, applied) ==
    /\ Answered(r)
    /\ calls[saga[r].call].http = 200
    /\ orders' = IF applied
                 THEN [orders EXCEPT ![saga[r].orderId].status = "CONFIRMED"]
                 ELSE orders
    /\ saga' = [saga EXCEPT ![r] =
           [@ EXCEPT !.pc = "failing", !.errCode = "P1017"]]
    /\ UNCHANGED <<stock, ledger, calls, decs, direct>>

\* ----------------------------------------------------------- specifications
Handler(c) ==
    \/ Lookup(c)
    \/ TxRead(c)
    \/ TxUpdate(c)
    \/ TxCreate(c)
    \/ GremlinDelay(c)

Coordinator(r) ==
    \/ CallDeduct(r)
    \/ Confirm(r)
    \/ Rejected(r)
    \/ Timeout(r)

Next ==
    \/ \E r \in 1..MaxReq, b \in OrderInputs :
          PlaceOrder(r, b.productId, b.quantity)
    \/ \E b \in DeductInputs :
          DirectDeduct(b.productId, b.quantity, b.orderId)
    \/ \E r \in 1..MaxReq : Coordinator(r)
    \/ \E c \in CallIds : Handler(c)

\* The store works.
Spec == Init /\ [][Next]_vars

NextFault ==
    \/ Next
    \/ \E c \in CallIds : TxInterrupt(c)
    \/ \E r \in 1..MaxReq, applied \in BOOLEAN : ConfirmFault(r, applied)
    \/ \E r \in 1..MaxReq : Fail(r)

\* The store may fail.
SpecFault == Init /\ [][NextFault]_vars

\* The coordinator runs whenever it can: the event loop resumes a handler
\* whose await has settled, and the axios timer fires.  Nothing is assumed
\* of the inventory handler, which may answer late or never.
LiveSpec == Spec /\ \A r \in 1..MaxReq : WF_vars(Coordinator(r))

\* ------------------------------------------------------ frontend: App.tsx
\* The quantities of line 67: isGremlin ? 3 : 1.
GremlinOnQuantity == 3
GremlinOffQuantity == 1

\* const quantity = isGremlin ? 3 : 1
DashboardQuantity(isGremlin) ==
    IF isGremlin THEN GremlinOnQuantity ELSE GremlinOffQuantity

\* placeOrder(isGremlin) of the dashboard: with a product of the list
\* selected, it posts { productId: selectedProduct, quantity } to /orders.
DashboardOrder(r, selectedProduct, isGremlin) ==
    PlaceOrder(r, selectedProduct, DashboardQuantity(isGremlin))

NextDashboard ==
    \/ \E r \in 1..MaxReq, p \in Products, g \in BOOLEAN :
          DashboardOrder(r, p, g)
    \/ \E b \in DeductInputs :
          DirectDeduct(b.productId, b.quantity, b.orderId)
    \/ \E r \in 1..MaxReq : Coordinator(r)
    \/ \E c \in CallIds : Handler(c)

\* Every order is placed from the dashboard.
SpecDashboard == Init /\ [][NextDashboard]_vars
TypeOK ==
    /\ \A p \in Products : stock[p] \in Int
    /\ \A x \in OrderIds : ledger[x] \in Nat /\ decs[x] \in Nat
    /\ Len(orders) <= MaxReq
    /\ Len(calls) <= MaxReq + MaxDirect
    /\ direct \in 0..MaxDirect

\* ------------------------------------------------------------------- claims
Terminal == {"CONFIRMED", "FAILED"}

\* The calls that carry operation identifier x.
CallsOf(x) == {c \in CallIds : calls[c].orderId = x}

\* C1: for every operation identifier, however many deduct calls carry it
\* and however they interleave, at most one stock decrement for it is
\* committed and at most one idempotency ledger entry for it exists.
C1_AtMostOnce ==
    \A x \in OrderIds :
        /\ decs[x] <= 1
        /\ ledger[x] <= 1
        /\ Cardinality({c \in CallsOf(x) : calls[c].committed}) <= 1

\* Two calls with one identifier overlapped: both went past the lookup, one
\* committed and the other was stopped by the unique key.
C1_Witness ==
    \E c, d \in CallIds :
        /\ c # d
        /\ calls[c].orderId = calls[d].orderId
        /\ calls[c].committed
        /\ calls[d].cause = "UniqueViolation"
        /\ ledger[calls[c].orderId] = 1

\* The calls that the handler answered 'Stock deducted'.
Deducted(c) == calls[c].pc = "done" /\ calls[c].message = MsgDeducted

RECURSIVE DeductedSum(_, _)
\* The sum of the quantities of the first n calls that were answered
\* 'Stock deducted' on product p.
DeductedSum(p, n) ==
    IF n = 0 THEN 0
    ELSE DeductedSum(p, n - 1)
         + (IF Deducted(n) /\ calls[n].productId = p THEN calls[n].quantity ELSE 0)

AllFinished == \A c \in CallIds : calls[c].pc = "done"

DistinctIds == \A c, d \in CallIds : c # d => calls[c].orderId # calls[d].orderId

\* C2: the stock check-and-decrement is indivisible with respect to
\* concurrent deduct calls on one product: once calls with distinct
\* operation identifiers have all finished, the stock is the initial stock
\* minus the quantities of the calls answered Deducted, and the quantity
\* deducted does not exceed the initial stock.
C2_NoLostUpdate ==
    (AllFinished /\ DistinctIds /\ \A c \in CallIds : calls[c].quantity > 0)
    => \A p \in Products :
          /\ stock[p] = SeedStock[p] - DeductedSum(p, Len(calls))
          /\ DeductedSum(p, Len(calls)) <= SeedStock[p]

\* C3: in every reachable state, under any interleaving of concurrent
\* deduct calls, the committed stock of every product is at least zero.
C3_NonNegative == \A p \in Products : stock[p] >= 0

\* Two calls on one product were in their transactions together; one
\* committed and took the stock below what the other asked for, and the
\* other was rejected for insufficient stock.
C3_Witness ==
    \E c, d \in CallIds :
        /\ c # d
        /\ calls[c].productId = calls[d].productId
        /\ calls[c].committed
        /\ calls[d].cause = "InsufficientStock"
        /\ stock[calls[c].productId] < calls[d].quantity

\* C4: the stock decrement and the idempotency ledger write of an operation
\* identifier are one atomic unit.  The committed state changes only by a
\* commit that makes both writes of one transaction visible together (a
\* transaction that is rolled back or interrupted between the two writes
\* leaves stock and ledger as they were), and in every state the ledger has
\* an entry for X exactly when a decrement for X has been committed.
C4_Atomic ==
    /\ [][(stock' # stock \/ ledger' # ledger) =>
            \E c \in CallIds :
               /\ calls[c].pc = "txCreate"
               /\ calls'[c].committed
               /\ stock' = [stock EXCEPT ![calls[c].productId] = calls[c].newStock]
               /\ ledger' = [ledger EXCEPT ![calls[c].orderId] = @ + 1]]_vars
    /\ [](\A x \in OrderIds :
            /\ ledger[x] = decs[x]
            /\ (ledger[x] > 0) <=> (\E c \in CallsOf(x) : calls[c].committed))

\* A transaction was interrupted after its stock update and before its
\* ledger write, and neither write is visible.
C4_Witness ==
    \E c \in CallIds :
        /\ calls[c].cause = "InterruptedAfterUpdate"
        /\ calls[c].quantity > 0
        /\ ledger[calls[c].orderId] = 0
        /\ stock = SeedStock

\* C5: when deduct is invoked several times with one operation identifier
\* (and one request) on an existing product with sufficient stock, exactly
\* one call commits a decrement and every other call is answered with the
\* AlreadyDeducted success and leaves the stock unchanged, also when it
\* overlaps the first.
C5_ReplaySucceeds ==
    \A c, d \in CallIds :
        ( /\ c # d
          /\ calls[c].orderId = calls[d].orderId
          /\ calls[c].productId = calls[d].productId
          /\ calls[c].quantity = calls[d].quantity
          /\ calls[c].quantity > 0
          /\ calls[c].committed
          /\ calls[d].pc = "done"
          /\ calls[d].cause \notin {"InsufficientStock"} )
        => /\ ~calls[d].committed
           /\ calls[d].http = 200
           /\ calls[d].message = MsgAlreadyDeducted

\* The saga's deduct call.
CallOf(r) == calls[saga[r].call]

\* The saga has answered 503 from its catch block.
Failed503(r) == saga[r].pc = "done" /\ saga[r].http = 503

\* The saga gave up at its deadline.
TimedOut(r) == Failed503(r) /\ saga[r].errCode = "ECONNABORTED"

\* The saga failed on the handler's 400.
FailedOnAnswer(r) == Failed503(r) /\ saga[r].errCode = "ERR_BAD_REQUEST"

\* C6: if the handler's answer does not arrive before the coordinator's
\* deadline, the order ends FAILED and the failure carries the timeout
\* reason; and a failure on any other handler failure does not carry the
\* timeout reason.
C6_TimeoutClassified ==
    \A r \in 1..MaxReq :
        /\ TimedOut(r) =>
              /\ orders[saga[r].orderId].status = "FAILED"
              /\ saga[r].respStatus = "FAILED"
              /\ saga[r].error = MsgTimedOut
        /\ FailedOnAnswer(r) =>
              /\ orders[saga[r].orderId].status = "FAILED"
              /\ saga[r].error # MsgTimedOut

\* One order timed out although the handler then committed and answered
\* 200, and another order failed on a 400 of the handler.
C6_Witness ==
    \E r, s \in 1..MaxReq :
        /\ TimedOut(r)
        /\ CallOf(r).committed /\ CallOf(r).http = 200
        /\ FailedOnAnswer(s)

\* C7: every order is created PENDING, and once an order's status is
\* CONFIRMED or FAILED no later step of any saga changes it, the failure
\* path taken after the CONFIRMED write included.
C7_TerminalFinal ==
    [][ /\ \A i \in 1..Len(orders) :
             orders[i].status \in Terminal => orders'[i].status = orders[i].status
        /\ \A i \in (1..Len(orders')) \ (1..Len(orders)) :
             orders'[i].status = "PENDING" ]_vars

\* C8: every placeOrder invocation that has created a PENDING order
\* eventually stops waiting, writes a terminal status for the order and
\* answers its caller, whatever the handler does.
C8_EventuallyTerminal ==
    \A r \in 1..MaxReq :
        (saga[r].pc \in {"created", "waiting"})
        ~> ( /\ saga[r].pc = "done"
             /\ saga[r].http \in {201, 503}
             /\ orders[saga[r].orderId].status \in Terminal )

\* An order has been failed at the deadline while the handler has not
\* answered its call.
C8_Witness ==
    \E r \in 1..MaxReq :
        /\ TimedOut(r)
        /\ CallOf(r).pc # "done"
        /\ orders[saga[r].orderId].status = "FAILED"

\* The handler rejected the call for a business reason.
BusinessRejected(c) ==
    calls[c].pc = "done" /\ calls[c].cause \in {"ProductNotFound", "InsufficientStock"}

\* C9: a deduct call rejected because the product does not exist or its
\* stock is lower than the quantity has no side effect (the stock of every
\* product is unchanged and no ledger entry is written), and an order
\* placed in that situation ends FAILED.
C9_RejectionNoEffect ==
    /\ [][\A c \in CallIds :
            (calls[c].pc # "done" /\ calls'[c].pc = "done"
                /\ calls'[c].cause \in {"ProductNotFound", "InsufficientStock"})
            => (stock' = stock /\ ledger' = ledger /\ ~calls'[c].committed)]_vars
    /\ [](\A r \in 1..MaxReq :
            (saga[r].pc = "done" /\ saga[r].call # 0 /\ BusinessRejected(saga[r].call))
            => (orders[saga[r].orderId].status = "FAILED" /\ saga[r].http = 503))

\* An order for more than the stock was rejected by the handler and is
\* FAILED, with no ledger entry for it.
C9_Witness ==
    \E r \in 1..MaxReq :
        /\ FailedOnAnswer(r)
        /\ CallOf(r).cause = "InsufficientStock"
        /\ ledger[saga[r].orderId] = 0
        /\ orders[saga[r].orderId].status = "FAILED"

\* C10: the failure of placeOrder carries the handler's business reason: an
\* order that fails for insufficient stock and an order that fails for a
\* product that does not exist are told apart by the reason they return.
C10_ReasonCarried ==
    \A r, s \in 1..MaxReq :
        ( /\ FailedOnAnswer(r) /\ CallOf(r).cause = "InsufficientStock"
          /\ FailedOnAnswer(s) /\ CallOf(s).cause = "ProductNotFound" )
        => saga[r].error # saga[s].error

\* The request has been answered with a failure.
FailureResponse(r) == saga[r].pc = "done" /\ saga[r].http \in {400, 503}

\* C11 as stated: every failure response of the order placement includes
\* the order identifier, for every failure outcome (invalid request,
\* business failure, timeout, persistence failure).
C11_EveryFailureHasId ==
    \A r \in 1..MaxReq : FailureResponse(r) => saga[r].respOrderId # 0

\* C11: every failure response for an order that has been created (business
\* failure, timeout, a failed CONFIRMED write) includes that order's
\* identifier; the InvalidRequest response is given before any order exists
\* and carries none.
C11_FailureAfterCreateHasId ==
    \A r \in 1..MaxReq :
        /\ Failed503(r) =>
              /\ saga[r].respOrderId = saga[r].orderId
              /\ saga[r].orderId \in 1..Len(orders)
        /\ (saga[r].pc = "done" /\ saga[r].http = 400) =>
              /\ saga[r].orderId = 0
              /\ saga[r].respOrderId = 0

\* One order failed on its CONFIRMED write and its 503 names it, and one
\* request was invalid and its 400 names no order.
C11_Witness ==
    \E r, s \in 1..MaxReq :
        /\ Failed503(r) /\ saga[r].errCode = "P1017"
        /\ saga[r].respOrderId = saga[r].orderId /\ saga[r].orderId # 0
        /\ saga[s].pc = "done" /\ saga[s].http = 400

\* The order's deduction or its CONFIRMED write failed in the store, not for
\* a business reason.
PersistenceFailure(r) ==
    /\ Failed503(r)
    /\ \/ saga[r].errCode = "P1017"
       \/ /\ saga[r].errCode = "ERR_BAD_REQUEST"
          /\ CallOf(r).cause \in {"Interrupted", "InterruptedAfterUpdate"}

\* C12: a persistence-layer failure during an order, stock or ledger write
\* is surfaced as an infrastructure error distinct from every business
\* failure: it is not reported with the message of an inventory failure and
\* does not leave the order recorded as FAILED.
C12_PersistenceDistinct ==
    \A r \in 1..MaxReq :
        PersistenceFailure(r) =>
            /\ saga[r].error # MsgInventoryIssue
            /\ orders[saga[r].orderId].status # "FAILED"

\* The request has been sent with productId or quantity missing.
InvalidOrder(r) ==
    saga[r].pc # "idle" /\ (Falsy(saga[r].productId) \/ Falsy(saga[r].quantity))

\* C13: a placeOrder request with productId or quantity missing fails with
\* InvalidRequest before any write: the step that receives it answers 400
\* and creates no order, issues no deduct call and leaves stock and ledger
\* unchanged, and no later step acts for it.
C13_InvalidNoWrite ==
    /\ [][\A r \in 1..MaxReq :
            (saga[r].pc = "idle" /\ saga'[r].pc # "idle"
                /\ (Falsy(saga'[r].productId) \/ Falsy(saga'[r].quantity)))
            => /\ saga'[r].pc = "done"
               /\ saga'[r].http = 400
               /\ saga'[r].error = MsgMissingOrder
               /\ orders' = orders
               /\ calls' = calls
               /\ stock' = stock
               /\ ledger' = ledger]_vars
    /\ [](\A r \in 1..MaxReq :
            InvalidOrder(r) =>
               /\ saga[r].pc = "done"
               /\ saga[r].orderId = 0
               /\ saga[r].call = 0
               /\ \A c \in CallIds : calls[c].from # r)

\* A request without quantity has been answered 400 while no order row and
\* no deduct call exists.
C13_Witness ==
    \E r \in 1..MaxReq :
        /\ InvalidOrder(r)
        /\ Falsy(saga[r].quantity)
        /\ saga[r].http = 400
        /\ orders = <<>>
        /\ calls = <<>>
        /\ stock = SeedStock

\* The order asks for the quantity that triggers the Gremlin.
GremlinOrder(r) == saga[r].pc # "idle" /\ saga[r].quantity = GremlinQuantity

\* The only transaction that has committed is that of call c.
OnlyCommit(c) == \A d \in CallIds : calls[d].committed => d = c

\* C14: the injected delay comes only after the decrement and ledger
\* transaction has committed and changes no committed state: an order for
\* the trigger quantity whose deduction commits (sufficient stock), with the
\* coordinator's deadline shorter than the delay, ends FAILED with the
\* timeout reason while a ledger entry for it exists and the stock has been
\* decremented by its quantity.
C14_DelayAfterCommit ==
    /\ [][\A c \in CallIds :
            (calls[c].pc = "delay" /\ calls'[c].pc # "delay")
            => (stock' = stock /\ ledger' = ledger)]_vars
    /\ [](\A c \in CallIds :
            calls[c].pc = "delay" =>
               /\ calls[c].committed
               /\ ledger[calls[c].orderId] = 1)
    /\ [](\A r \in 1..MaxReq :
            (GremlinOrder(r) /\ saga[r].pc = "done" /\ CallOf(r).committed)
            => /\ TimedOut(r)
               /\ saga[r].error = MsgTimedOut
               /\ orders[saga[r].orderId].status = "FAILED"
               /\ ledger[saga[r].orderId] = 1
               /\ OnlyCommit(saga[r].call) =>
                     stock[saga[r].productId]
                        = SeedStock[saga[r].productId] - saga[r].quantity)

\* An order for 13 is FAILED for the timeout, its ledger entry exists and
\* the stock is 20 - 13.
C14_Witness ==
    \E r \in 1..MaxReq :
        /\ GremlinOrder(r)
        /\ TimedOut(r)
        /\ CallOf(r).committed
        /\ OnlyCommit(saga[r].call)
        /\ orders[saga[r].orderId].status = "FAILED"
        /\ ledger[saga[r].orderId] = 1
        /\ stock[saga[r].productId] = FluxStock - GremlinQuantity

\* The deduct calls issued by the coordinator for request r.
IssuedBy(r) == {c \in CallIds : calls[c].from = r}

\* C15: for each placeOrder invocation that passes validation, the PENDING
\* write is done before the deduct call is issued, the call carries the
\* order's own identifier (and its product and quantity), and exactly one
\* deduct call is issued for the order, whether it succeeds, fails or times
\* out.
C15_OneCallOwnId ==
    /\ [][\A c \in (1..Len(calls')) \ CallIds :
            calls'[c].from # 0 =>
               /\ saga[calls'[c].from].pc = "created"
               /\ calls'[c].orderId \in 1..Len(orders)
               /\ orders[calls'[c].orderId].status = "PENDING"]_vars
    /\ [](\A r \in 1..MaxReq :
            /\ Cardinality(IssuedBy(r)) <= 1
            /\ saga[r].pc \in {"idle", "created"} => IssuedBy(r) = {}
            /\ (saga[r].orderId # 0 /\ saga[r].pc \notin {"idle", "created"}) =>
                  /\ IssuedBy(r) = {saga[r].call}
                  /\ CallOf(r).orderId = saga[r].orderId
                  /\ CallOf(r).productId = orders[saga[r].orderId].productId
                  /\ CallOf(r).quantity = orders[saga[r].orderId].quantity)
    /\ [](\A r, s \in 1..MaxReq :
            (r # s /\ saga[r].orderId # 0 /\ saga[s].orderId # 0)
            => saga[r].orderId # saga[s].orderId)

\* One order was confirmed and one timed out, each with its one call under
\* its own id.
C15_Witness ==
    \E r, s \in 1..MaxReq :
        /\ saga[r].pc = "done" /\ saga[r].http = 201
        /\ TimedOut(s)
        /\ IssuedBy(r) = {saga[r].call} /\ CallOf(r).orderId = saga[r].orderId
        /\ IssuedBy(s) = {saga[s].call} /\ CallOf(s).orderId = saga[s].orderId

\* C16: a deduct call whose operation identifier is already in the
\* idempotency ledger is answered AlreadyDeducted by its lookup, without
\* the injected delay even when its quantity is the trigger, and without a
\* change of stock or ledger.
C16_ReplayNoDelay ==
    /\ [][\A c \in CallIds :
            (calls[c].pc = "lookup" /\ ledger[calls[c].orderId] > 0
                /\ calls'[c] # calls[c])
            => /\ calls'[c].pc = "done"
               /\ calls'[c].http = 200
               /\ calls'[c].message = MsgAlreadyDeducted
               /\ ~calls'[c].committed
               /\ stock' = stock
               /\ ledger' = ledger]_vars
    /\ [][\A c \in CallIds :
            (calls[c].pc # "delay" /\ calls'[c].pc = "delay")
            => (calls[c].pc = "txCreate" /\ ledger[calls[c].orderId] = 0)]_vars

\* A call for the trigger quantity found its identifier in the ledger and
\* was answered AlreadyDeducted.
C16_Witness ==
    \E c \in CallIds :
        /\ calls[c].quantity = GremlinQuantity
        /\ calls[c].pc = "done"
        /\ calls[c].cause = "AlreadyDeducted"
        /\ calls[c].http = 200
        /\ calls[c].message = MsgAlreadyDeducted
        /\ ledger[calls[c].orderId] = 1

\* The committed decrements made under operation identifier x.
CommitsOf(x) == {c \in CallsOf(x) : calls[c].committed}

RECURSIVE ConfirmedSum(_, _)
\* The sum of the quantities of the CONFIRMED orders among the first n, on
\* product p.
ConfirmedSum(p, n) ==
    IF n = 0 THEN 0
    ELSE ConfirmedSum(p, n - 1)
         + (IF orders[n].status = "CONFIRMED" /\ orders[n].productId = p
            THEN orders[n].quantity ELSE 0)

\* C17: an order with status CONFIRMED has an idempotency ledger entry for
\* its identifier and its product's stock has been decremented exactly once
\* for it, by exactly the order's quantity; when every commit is that of a
\* confirmed order, the stock is the initial stock minus the quantities of
\* the confirmed orders (stock 100 and an order of 1 give 99).
C17_ConfirmedIsDeducted ==
    /\ \A i \in 1..Len(orders) :
          orders[i].status = "CONFIRMED" =>
             /\ ledger[i] = 1
             /\ Cardinality(CommitsOf(i)) = 1
             /\ \A c \in CommitsOf(i) :
                   /\ calls[c].productId = orders[i].productId
                   /\ calls[c].quantity = orders[i].quantity
    /\ ( /\ AllFinished
         /\ \A c \in CallIds :
               calls[c].committed =>
                  /\ calls[c].orderId \in 1..Len(orders)
                  /\ orders[calls[c].orderId].status = "CONFIRMED" )
       => \A p \in Products :
             stock[p] = SeedStock[p] - ConfirmedSum(p, Len(orders))

\* C18: a deduct call whose quantity is not a positive integer is rejected
\* as InvalidRequest with no side effects, so that across any sequence of
\* deduct calls the stock of a product never increases.
C18_StockNeverIncreases ==
    [][\A p \in Products : stock'[p] <= stock[p]]_vars

\* C19: whenever deduct answers a request with the AlreadyDeducted success,
\* the decrement committed before for its operation identifier was applied
\* to the same product with the same quantity.
C19_ReplayMatchesRequest ==
    \A c \in CallIds :
        calls[c].cause = "AlreadyDeducted" =>
            \E d \in CommitsOf(calls[c].orderId) :
                /\ calls[d].productId = calls[c].productId
                /\ calls[d].quantity = calls[c].quantity

\* The order was placed from the dashboard with the Gremlin option on.
GremlinOn(r) ==
    saga[r].pc # "idle" /\ saga[r].quantity = DashboardQuantity(TRUE)

\* C20: an order placed from the dashboard with the Gremlin option on is
\* sent with the handler's trigger quantity (13), so that when its deduction
\* commits (sufficient stock) the answer is delayed past the coordinator's
\* deadline and the order ends FAILED with the timeout reason.
C20_GremlinButtonTimesOut ==
    \A r \in 1..MaxReq :
        GremlinOn(r) =>
            /\ saga[r].quantity = GremlinQuantity
            /\ (saga[r].pc = "done" /\ CallOf(r).committed) =>
                  /\ TimedOut(r)
                  /\ orders[saga[r].orderId].status = "FAILED"

====
